---- MODULE Spec2Model ----
(***************************************************************************)
(* State-machine model of the rice-shop web application (src/app.py).      *)
(*                                                                         *)
(* The state is the persistent store (the farmer and rice_product tables), *)
(* the upload folder, one login session per browser, and the last          *)
(* request/response pair.  Text is modelled as a sequence of one-character *)
(* strings so that the conversions the handlers rely on (DataRequired's    *)
(* strip, float(), secure_filename, the password hash) are computed rather *)
(* than assumed.                                                           *)
(***************************************************************************)
EXTENDS Integers, Sequences, FiniteSets, TLC

VARIABLES
    farmers,    \* farmer table: sequence of rows, row i has id i
    products,   \* rice_product table: sequence of rows, row i has id i
    uploads,    \* names of the files present in UPLOAD_FOLDER (the folder
                \* itself exists)
    session,    \* per browser: <<>> (anonymous) or <<farmer id>>
    pending,    \* per browser: <<>> or <<form>> of a /register request that
                \* has passed its existence check and not yet committed
    serial,     \* TRUE: the server handles one request at a time
    resp        \* the last request together with its response

vars == <<farmers, products, uploads, session, pending, serial, resp>>

-----------------------------------------------------------------------------
(* Bounds                                                                   *)

MaxFarmers == 2
MaxProducts == 2

\* The browsers: each has its own session cookie.
Clients == {"c1", "c2"}

\* The browsers whose user logs in; the others browse, register and submit
\* forms as anonymous visitors.
Members == {"c1"}

-----------------------------------------------------------------------------
(* Text                                                                     *)

Null == <<>>
Some(v) == <<v>>

Whitespace == {" "}
Digits == {"0", "1", "2", "3", "4", "5", "6", "7", "8", "9"}
Letters == {"a", "b", "c", "d", "e", "g", "i", "j", "l", "m", "n", "o", "p", "r", "s", "t", "w", "B", "J"}

DigitVal(ch) ==
    CASE ch = "0" -> 0 [] ch = "1" -> 1 [] ch = "2" -> 2 [] ch = "3" -> 3
      [] ch = "4" -> 4 [] ch = "5" -> 5 [] ch = "6" -> 6 [] ch = "7" -> 7
      [] ch = "8" -> 8 [] ch = "9" -> 9

RECURSIVE LStrip(_, _)
LStrip(s, chars) ==
    IF s # <<>> /\ Head(s) \in chars THEN LStrip(Tail(s), chars) ELSE s

RECURSIVE RStrip(_, _)
RStrip(s, chars) ==
    IF s # <<>> /\ s[Len(s)] \in chars
    THEN RStrip(SubSeq(s, 1, Len(s) - 1), chars)
    ELSE s

\* str.strip(chars)
Strip(s, chars) == RStrip(LStrip(s, chars), chars)

\* wtforms DataRequired on a StringField: the data is truthy and, being a
\* string, is not all whitespace.
DataRequired(s) == s # <<>> /\ Strip(s, Whitespace) # <<>>

\* wtforms EqualTo
EqualTo(a, b) == a = b

\* The decimal numeral s (a sequence of digits) as a natural number.
RECURSIVE NumeralValue(_)
NumeralValue(s) ==
    IF s = <<>> THEN 0
    ELSE 10 * NumeralValue(SubSeq(s, 1, Len(s) - 1)) + DigitVal(s[Len(s)])

\* Python's float(str) on the decimal numerals of the model's alphabet:
\* surrounding whitespace is ignored, a sign is optional, there is at most
\* one point and at least one digit.  The value is mant / 10^scale, kept
\* normalised (no trailing fractional zero), so 7, 7.0 and " 7 " agree.
\* Anything else raises ValueError (ok = FALSE).
to_float(s) ==
    LET t == Strip(s, Whitespace)
        signed == t # <<>> /\ Head(t) \in {"+", "-"}
        u == IF signed THEN Tail(t) ELSE t
        dots == {i \in 1..Len(u) : u[i] = "."}
        dot == IF dots = {} THEN Len(u) + 1 ELSE CHOOSE i \in dots : TRUE
        int == SubSeq(u, 1, dot - 1)
        frac == RStrip(SubSeq(u, dot + 1, Len(u)), {"0"})
        wellFormed ==
            /\ Cardinality(dots) <= 1
            /\ \A i \in 1..Len(u) : i \in dots \/ u[i] \in Digits
            /\ \E i \in 1..Len(u) : u[i] \in Digits
        magnitude == NumeralValue(int \o frac)
    IN  IF wellFormed
        THEN [ok |-> TRUE,
              mant |-> IF signed /\ Head(t) = "-" THEN 0 - magnitude ELSE magnitude,
              scale |-> Len(frac)]
        ELSE [ok |-> FALSE, mant |-> 0, scale |-> 0]

\* What SQLite stores when a text value is bound to a column of INTEGER
\* affinity: a well-formed numeral is converted to the number, any other
\* text is stored as it is.
integer_affinity(s) ==
    LET f == to_float(s)
    IN  IF f.ok
        THEN [type |-> IF f.scale = 0 THEN "integer" ELSE "real",
              mant |-> f.mant, scale |-> f.scale, text |-> <<>>]
        ELSE [type |-> "text", mant |-> 0, scale |-> 0, text |-> s]

\* werkzeug.utils.secure_filename on ASCII input (POSIX: os.sep is "/" and
\* there is no altsep): separators become spaces, whitespace-separated words
\* are joined with "_", characters outside [A-Za-z0-9_.-] are dropped, and
\* leading and trailing "." and "_" are stripped.
SafeChars == Letters \cup Digits \cup {"_", ".", "-"}

RECURSIVE JoinWords(_)
JoinWords(s) ==
    IF s = <<>> THEN <<>>
    ELSE IF Head(s) \in Whitespace
         THEN IF Len(s) >= 2 /\ s[2] \in Whitespace
              THEN JoinWords(Tail(s))
              ELSE <<"_">> \o JoinWords(Tail(s))
         ELSE <<Head(s)>> \o JoinWords(Tail(s))

secure_filename(name) ==
    LET spaced == [i \in 1..Len(name) |-> IF name[i] = "/" THEN " " ELSE name[i]]
        joined == JoinWords(Strip(spaced, Whitespace))
        ascii == SelectSeq(joined, LAMBDA ch : ch \in SafeChars)
    IN  Strip(ascii, {".", "_"})

\* werkzeug.security: the stored value carries the method, the salt and the
\* digest of (salt, password); the digest is modelled as the pair itself
\* (an ideal, collision-free hash).
Digest(salt, password) == <<salt, password>>

generate_password_hash(password, salt) ==
    [method |-> "scrypt", salt |-> salt, digest |-> Digest(salt, password)]

\* Mutant: the check recomputes nothing and accepts every password.
check_password_hash_any(pwhash, password) == pwhash.method = "scrypt"

check_password_hash(pwhash, password) ==
    pwhash.digest = Digest(pwhash.salt, password)

Salts == {"s1"}

-----------------------------------------------------------------------------
(* Request inputs                                                           *)

ALICE == <<"a", "l", "i", "c", "e">>
BOB == <<"b", "o", "b">>
BLANK == <<" ">>
PW1 == <<"p", "w", "1">>
PW2 == <<"p", "w", "2">>

\* A request is a method and the form data it carries.  A GET carries one
\* representative form: validate_on_submit reads the form only of a POST.
Requests(forms, getForm) == {<<"POST", f>> : f \in forms} \cup {<<"GET", getForm>>}

\* RegisterForm fields (src/app.py:48-53) plus whether the CSRF token that
\* FlaskForm adds is valid.
RegForm(u, p, cp, r, csrf) ==
    [username |-> u, password |-> p, confirm_password |-> cp, role |-> r, csrf |-> csrf]

RegisterForms ==
    { RegForm(ALICE, PW1, PW1, "farmer", TRUE),
      RegForm(BOB, PW1, PW1, "farmer", TRUE),
      RegForm(BOB, PW2, PW2, "buyer", TRUE),
      RegForm(ALICE, PW1, PW2, "farmer", TRUE),
      RegForm(BLANK, PW1, PW1, "farmer", TRUE),
      RegForm(BOB, PW1, PW1, "admin", TRUE),
      RegForm(BOB, PW1, PW1, "farmer", FALSE) }

\* LoginForm fields (src/app.py:43-46) plus the CSRF token's validity.
LogForm(u, p, csrf) == [username |-> u, password |-> p, csrf |-> csrf]

LoginForms ==
    { LogForm(u, p, TRUE) : u \in {ALICE, BOB}, p \in {PW1, PW2} }
    \cup { LogForm(ALICE, <<>>, TRUE), LogForm(ALICE, PW1, FALSE) }

BASMATI == <<"B", "a", "s", "m", "a", "t", "i">>
JASMINE == <<"J", "a", "s", "m", "i", "n", "e">>
AROMATIC == <<"a", "r", "o", "m", "a", "t", "i", "c">>

\* SellRiceForm fields (src/app.py:55-61) plus the CSRF token's validity.
\* image is Null when the request carries no file part, else Some(the
\* client-supplied filename).
SellForm(n, d, p, q, img, csrf) ==
    [name |-> n, description |-> d, price |-> p, quantity |-> q, image |-> img, csrf |-> csrf]

\* The example of the spec's section 8: Basmati, 120.5, 50, no image.
BasmatiForm ==
    SellForm(BASMATI, <<>>, <<"1", "2", "0", ".", "5">>, <<"5", "0">>, Null, TRUE)

SellRiceForms ==
    { BasmatiForm,
      SellForm(BASMATI, <<>>, <<"1", "2", "0", ".", "5">>, <<"5", "0">>, Some(<<>>), TRUE),
      SellForm(JASMINE, AROMATIC, <<" ", "7", " ">>, <<"3">>,
               Some(<<".", ".", "/", "r", " ", "1", ".", "p">>), TRUE),
      SellForm(BASMATI, <<>>, <<"a", "b", "c">>, <<"5", "0">>,
               Some(<<"r", "_", "1", ".", "p">>), TRUE),
      SellForm(BASMATI, <<>>, <<"1", "2", "0", ".", "5">>, <<"5", "0">>,
               Some(<<".", ".", "/">>), TRUE),
      SellForm(BLANK, <<>>, <<"7">>, <<"3">>, Null, TRUE),
      SellForm(BASMATI, <<>>, <<"7">>, <<"3">>, Null, FALSE) }

\* Ids a URL can name: every id the table can hold and one beyond.
ProductIds == 1..(MaxProducts + 1)

-----------------------------------------------------------------------------
(* Store and session                                                        *)

\* Farmer row (src/app.py:25-31)
Farmer(id, username, password, role) ==
    [id |-> id, username |-> username, password |-> password, role |-> role,
     qr_code |-> Null]

\* RiceProduct row (src/app.py:33-40)
RiceProduct(id, name, description, price, quantity, image, farmer_id) ==
    [id |-> id, name |-> name, description |-> description, price |-> price,
     quantity |-> quantity, image |-> image, farmer_id |-> farmer_id]

\* Farmer.query.filter_by(username=...).first(): Null or Some(row)
farmer_by_username(u) ==
    LET hits == {i \in 1..Len(farmers) : farmers[i].username = u}
    IN  IF hits = {} THEN Null
        ELSE Some(farmers[CHOOSE i \in hits : \A j \in hits : i <= j])

\* Mutant: the lookup ignores the id and returns the first row.
get_first(table, id) == IF table = <<>> THEN Null ELSE Some(table[1])

\* Model.query.get(id): Null or Some(row)
get(table, id) ==
    LET hits == {i \in 1..Len(table) : table[i].id = id}
    IN  IF hits = {} THEN Null ELSE Some(table[CHOOSE i \in hits : TRUE])

\* Mutant: an anonymous request is given the first account.
current_user_default(c) ==
    IF session[c] = <<>>
    THEN IF farmers = <<>> THEN Null ELSE Some(farmers[1])
    ELSE get(farmers, session[c][1])

\* load_user (src/app.py:76-78) applied to the id the session stores: the
\* request's current_user, Null when anonymous.
current_user(c) ==
    IF session[c] = <<>> THEN Null ELSE get(farmers, session[c][1])

\* Mutant: the existence check is left out.
user_exists_skipped(f) == FALSE

\* register's existence check (src/app.py:122-123)
user_exists(f) == farmer_by_username(f.username) # Null

\* Mutant: the username column is not declared unique.
username_conflict_unchecked(row) == FALSE

\* The UNIQUE constraint on farmer.username (src/app.py:27), checked by the
\* store when a row is inserted.
username_conflict(row) == \E i \in 1..Len(farmers) : farmers[i].username = row.username

\* Mutant: the role test lets every account through.
is_farmer_any(user) == TRUE

\* Mutant: the role test is inverted.
is_farmer_inverted(user) == user.role # "farmer"

\* The role test of sell_rice and profile (src/app.py:144, 192)
is_farmer(user) == user.role = "farmer"

\* The role test of buy_now (src/app.py:213)
is_buyer(user) == user.role = "buyer"

\* Mutant: the profile query has no owner filter.
products_of_all(farmer_id) == products

\* RiceProduct.query.filter_by(farmer_id=...).all()
products_of(farmer_id) == SelectSeq(products, LAMBDA p : p.farmer_id = farmer_id)

\* Mutant: the row keeps the client-supplied file name.
new_rice_raw_filename(f, filename, user) ==
    LET price == to_float(f.price)
    IN  RiceProduct(Len(products) + 1, f.name, f.description,
                    [mant |-> price.mant, scale |-> price.scale],
                    integer_affinity(f.quantity),
                    IF filename = Null THEN Null ELSE f.image, user.id)

\* The row sell_rice builds from the validated form (src/app.py:158-165);
\* the store converts price through float() and quantity through the
\* column's INTEGER affinity.
new_rice(f, filename, user) ==
    LET price == to_float(f.price)
    IN  RiceProduct(Len(products) + 1, f.name, f.description,
                    [mant |-> price.mant, scale |-> price.scale],
                    integer_affinity(f.quantity), filename, user.id)

\* A browser can start a request when its own previous one has completed
\* and, on a server that handles one request at a time, no other request is
\* in progress.
Free(c) ==
    /\ pending[c] = <<>>
    /\ serial => \A d \in Clients : pending[d] = <<>>

-----------------------------------------------------------------------------
(* Responses                                                                *)

Response(c, route, method, form, arg, status, target, flash, listed, qr) ==
    [client |-> c, route |-> route, method |-> method, form |-> form, arg |-> arg,
     status |-> status, target |-> target, flash |-> flash,
     products |-> listed, farmer_qr_code |-> qr]

NoResponse == Response("", "", "", Null, 0, 0, "", "", <<>>, Null)

\* render_template
Render(c, route, method, form, arg, template, flash, listed, qr) ==
    Response(c, route, method, form, arg, 200, template, flash, listed, qr)

\* redirect(url_for(...))
Redirect(c, route, method, form, arg, location, flash) ==
    Response(c, route, method, form, arg, 302, location, flash, <<>>, Null)

\* get_or_404 miss
NotFound(c, route, method, form, arg) ==
    Response(c, route, method, form, arg, 404, "", "", <<>>, Null)

\* an exception no handler catches: the framework's error page
ServerError(c, route, method, form, arg, exception) ==
    Response(c, route, method, form, arg, 500, exception, "", <<>>, Null)

\* @login_required for an anonymous request: login_manager.login_view
Unauthorized(c, route, method, form, arg) ==
    Redirect(c, route, method, form, arg, "/login", "Please log in to access this page.")

-----------------------------------------------------------------------------
(* Form validation: validate_on_submit                                      *)

validate_login(m, f) ==
    /\ m = "POST"
    /\ f.csrf
    /\ DataRequired(f.username)
    /\ DataRequired(f.password)

validate_register(m, f) ==
    /\ m = "POST"
    /\ f.csrf
    /\ DataRequired(f.username)
    /\ DataRequired(f.password)
    /\ DataRequired(f.confirm_password)
    /\ EqualTo(f.confirm_password, f.password)
    /\ f.role \in {"farmer", "buyer"}

validate_sell_rice(m, f) ==
    /\ m = "POST"
    /\ f.csrf
    /\ DataRequired(f.name)
    /\ DataRequired(f.price)
    /\ DataRequired(f.quantity)

-----------------------------------------------------------------------------
(* Route handlers                                                           *)

Init ==
    /\ farmers = <<>>
    /\ products = <<>>
    /\ uploads = {}
    /\ session = [c \in Clients |-> <<>>]
    /\ pending = [c \in Clients |-> <<>>]
    /\ serial = FALSE
    /\ resp = NoResponse

\* The same application behind a server that handles one request at a time.
InitSerial ==
    /\ farmers = <<>>
    /\ products = <<>>
    /\ uploads = {}
    /\ session = [c \in Clients |-> <<>>]
    /\ pending = [c \in Clients |-> <<>>]
    /\ serial = TRUE
    /\ resp = NoResponse

\* GET /
index(c) ==
    /\ Free(c)
    /\ resp' = Render(c, "index", "GET", Null, 0, "index.html", "", products, Null)
    /\ UNCHANGED <<farmers, products, uploads, session, pending, serial>>

\* GET, POST /login
login(c, m, f) ==
    /\ Free(c)
    /\ LET farmer == farmer_by_username(f.username)
       IN  IF validate_login(m, f)
           THEN IF farmer # Null /\ check_password_hash(farmer[1].password, f.password)
                THEN /\ session' = [session EXCEPT ![c] = Some(farmer[1].id)]
                     /\ resp' = Redirect(c, "login", m, f, 0, "/", "Logged in successfully!")
                ELSE /\ session' = session
                     /\ resp' = Render(c, "login", m, f, 0, "login.html",
                                       "Invalid username or password", <<>>, Null)
           ELSE /\ session' = session
                /\ resp' = Render(c, "login", m, f, 0, "login.html", "", <<>>, Null)
    /\ UNCHANGED <<farmers, products, uploads, pending, serial>>

\* GET, POST /register up to and including the existence check: the request
\* either is answered here or goes on to the insert.
register_check(c, m, f) ==
    /\ Free(c)
    /\ IF ~validate_register(m, f)
       THEN /\ resp' = Render(c, "register", m, f, 0, "register.html", "", <<>>, Null)
            /\ pending' = pending
       ELSE IF user_exists(f)
       THEN /\ resp' = Redirect(c, "register", m, f, 0, "/register",
                                "Username already exists. Please choose another.")
            /\ pending' = pending
       ELSE /\ Len(farmers) + Cardinality({d \in Clients : pending[d] # <<>>}) < MaxFarmers
            /\ pending' = [pending EXCEPT ![c] = Some(f)]
            /\ resp' = resp
    /\ UNCHANGED <<farmers, products, uploads, session, serial>>

\* POST /register from the hash to the commit.  The username column is
\* UNIQUE: the commit of a second row with the same username raises
\* IntegrityError, which nothing catches.
register_commit(c) ==
    /\ pending[c] # <<>>
    /\ LET f == pending[c][1]
       IN  \E salt \in Salts :
           LET hashed_password == generate_password_hash(f.password, salt)
               farmer == Farmer(Len(farmers) + 1, f.username, hashed_password, f.role)
           IN  IF username_conflict(farmer)
               THEN /\ farmers' = farmers
                    /\ resp' = ServerError(c, "register", "POST", f, 0, "IntegrityError")
               ELSE /\ farmers' = Append(farmers, farmer)
                    /\ resp' = Redirect(c, "register", "POST", f, 0, "/login",
                                        "Registered successfully!")
    /\ pending' = [pending EXCEPT ![c] = <<>>]
    /\ UNCHANGED <<products, uploads, session, serial>>

\* GET, POST /sell_rice
sell_rice(c, m, f) ==
    /\ Free(c)
    /\ LET user == current_user(c)
           hasFile == f.image # Null /\ f.image[1] # <<>>
           filename == IF hasFile THEN Some(secure_filename(f.image[1])) ELSE Null
           saved == hasFile => filename[1] # <<>>
           price == to_float(f.price)
           rice == new_rice(f, filename, user[1])
       IN  IF user = Null
           THEN /\ resp' = Unauthorized(c, "sell_rice", m, f, 0)
                /\ UNCHANGED <<products, uploads>>
           ELSE IF ~is_farmer(user[1])
           THEN /\ resp' = Redirect(c, "sell_rice", m, f, 0, "/",
                                    "You must be a farmer to sell rice.")
                /\ UNCHANGED <<products, uploads>>
           ELSE IF ~validate_sell_rice(m, f)
           THEN /\ resp' = Render(c, "sell_rice", m, f, 0, "sell_rice.html", "", <<>>, Null)
                /\ UNCHANGED <<products, uploads>>
           ELSE IF ~saved
           THEN /\ resp' = ServerError(c, "sell_rice", m, f, 0, "IsADirectoryError")
                /\ UNCHANGED <<products, uploads>>
           ELSE IF ~price.ok
           THEN /\ uploads' = IF hasFile THEN uploads \cup {filename[1]} ELSE uploads
                /\ products' = products
                /\ resp' = ServerError(c, "sell_rice", m, f, 0, "StatementError")
           ELSE /\ Len(products) < MaxProducts
                /\ uploads' = IF hasFile THEN uploads \cup {filename[1]} ELSE uploads
                /\ products' = Append(products, rice)
                /\ resp' = Redirect(c, "sell_rice", m, f, 0, "/", "Rice product added!")
    /\ UNCHANGED <<farmers, session, pending, serial>>

\* GET /product/<id>
product_details(c, id) ==
    /\ Free(c)
    /\ LET product == get(products, id)
       IN  resp' = IF product = Null
                   THEN NotFound(c, "product_details", "GET", Null, id)
                   ELSE Render(c, "product_details", "GET", Null, id,
                               "product_details.html", "", product, Null)
    /\ UNCHANGED <<farmers, products, uploads, session, pending, serial>>

\* GET /profile
profile(c) ==
    /\ Free(c)
    /\ LET user == current_user(c)
       IN  resp' =
             IF user = Null
             THEN Unauthorized(c, "profile", "GET", Null, 0)
             ELSE IF ~is_farmer(user[1])
             THEN Redirect(c, "profile", "GET", Null, 0, "/",
                           "You must be a farmer to view this page.")
             ELSE Render(c, "profile", "GET", Null, 0, "profile.html", "",
                         products_of(user[1].id), Null)
    /\ UNCHANGED <<farmers, products, uploads, session, pending, serial>>

\* Mutant: the product is looked up before the role is tested.
buy_now_view_lookup_first(c, id, user) ==
    LET product == get(products, id)
        farmer == get(farmers, product[1].farmer_id)
    IN  IF product = Null
        THEN NotFound(c, "buy_now", "GET", Null, id)
        ELSE IF ~is_buyer(user)
        THEN Redirect(c, "buy_now", "GET", Null, id, "/", "Only buyers can make purchases.")
        ELSE IF farmer = Null
        THEN NotFound(c, "buy_now", "GET", Null, id)
        ELSE Render(c, "buy_now", "GET", Null, id, "payment_page.html", "",
                    product, Some(farmer[1].qr_code))

\* The response of buy_now once @login_required has let the request
\* through (src/app.py:213-227)
buy_now_view(c, id, user) ==
    LET product == get(products, id)
        farmer == get(farmers, product[1].farmer_id)
    IN  IF ~is_buyer(user)
        THEN Redirect(c, "buy_now", "GET", Null, id, "/", "Only buyers can make purchases.")
        ELSE IF product = Null
        THEN NotFound(c, "buy_now", "GET", Null, id)
        ELSE IF farmer = Null
        THEN NotFound(c, "buy_now", "GET", Null, id)
        ELSE Render(c, "buy_now", "GET", Null, id, "payment_page.html", "",
                    product, Some(farmer[1].qr_code))

\* GET /buy_now/<id>
buy_now(c, id) ==
    /\ Free(c)
    /\ LET user == current_user(c)
       IN  resp' = IF user = Null
                   THEN Unauthorized(c, "buy_now", "GET", Null, id)
                   ELSE buy_now_view(c, id, user[1])
    /\ UNCHANGED <<farmers, products, uploads, session, pending, serial>>

Next ==
    \/ \E c \in Members :
          \E r \in Requests(LoginForms, LogForm(ALICE, PW1, TRUE)) : login(c, r[1], r[2])
    \/ \E c \in Clients :
        \/ index(c)
        \/ \E r \in Requests(RegisterForms, RegForm(ALICE, PW1, PW1, "farmer", TRUE)) :
               register_check(c, r[1], r[2])
        \/ register_commit(c)
        \/ \E r \in Requests(SellRiceForms, BasmatiForm) : sell_rice(c, r[1], r[2])
        \/ \E id \in ProductIds : product_details(c, id)
        \/ profile(c)
        \/ \E id \in ProductIds : buy_now(c, id)

\* Requests may interleave (a threaded or multi-process server).
Spec == Init /\ [][Next]_vars

\* Requests are handled one at a time.
SpecSerial == InitSerial /\ [][Next]_vars

-----------------------------------------------------------------------------
(* Properties                                                               *)

\* The step completes a request to the route: resp' is that request's
\* response.  (The one step that answers nothing is a /register request
\* passing its existence check, which leaves resp as it was.)
Answered(route) ==
    /\ resp'.route = route
    /\ \A c \in Clients : pending[c] = <<>> => pending'[c] = <<>>

\* The account the session of the request's browser names before the step.
SessionUser(c) == {farmers[i] : i \in {j \in 1..Len(farmers) : session[c] = <<farmers[j].id>>}}

\* No row of either table is ever updated or deleted.
RowsKept ==
    /\ Len(farmers') >= Len(farmers)
    /\ \A i \in 1..Len(farmers) : farmers'[i] = farmers[i]
    /\ Len(products') >= Len(products)
    /\ \A i \in 1..Len(products) : products'[i] = products[i]

\* The step writes neither table nor the upload folder.
StoreUnchanged == farmers' = farmers /\ products' = products /\ uploads' = uploads

\* Some Farmer row has the username.
UsernameTaken(u) == \E i \in 1..Len(farmers) : farmers[i].username = u

\* The flash of register's existence check (src/app.py:124).
DuplicateMessage == "Username already exists. Please choose another."

\* What a step that answers a valid /register submission must do.
C1_Step ==
    (Answered("register") /\ validate_register(resp'.method, resp'.form)) =>
        IF UsernameTaken(resp'.form.username)
        THEN /\ resp'.status = 302
             /\ resp'.target = "/register"
             /\ resp'.flash = DuplicateMessage
             /\ farmers' = farmers
        ELSE /\ Len(farmers') = Len(farmers) + 1
             /\ SubSeq(farmers', 1, Len(farmers)) = farmers
             /\ farmers'[Len(farmers')].username = resp'.form.username
             /\ farmers'[Len(farmers')].role = resp'.form.role
             /\ resp'.status = 302
             /\ resp'.target = "/login"

\* C1: with requests handled one at a time, a valid /register submission
\* whose username an existing Farmer row has is answered with the
\* "username already exists" redirect and leaves the farmer table as it
\* was; one with an unused username adds exactly one Farmer row, carrying
\* that username and the chosen role, and redirects to /login.
C1_RegisterOneAtATime == [][C1_Step]_vars

\* C1 witness: a second registration of a stored username was rejected.
C1_Witness ==
    /\ serial
    /\ resp.route = "register"
    /\ resp.flash = DuplicateMessage
    /\ UsernameTaken(resp.form.username)
    /\ Len(farmers) = 1

\* No two Farmer rows share a username.
C2_UniqueUsernames ==
    \A i, j \in 1..Len(farmers) : farmers[i].username = farmers[j].username => i = j

\* A commit that finds its username stored meanwhile ends in the storage error.
C2_LateInsertFails ==
    \A c \in Clients :
        (pending[c] # <<>> /\ pending'[c] = <<>> /\ UsernameTaken(pending[c][1].username)) =>
            /\ resp'.client = c
            /\ resp'.route = "register"
            /\ resp'.status = 500
            /\ resp'.target = "IntegrityError"
            /\ resp'.flash # DuplicateMessage
            /\ farmers' = farmers

\* C2: when /register requests interleave, two requests for the same unused
\* username can both pass the existence check; the insert that comes second
\* fails with the store's uniqueness error, unhandled (a 500, not the
\* "username already exists" redirect), and in every reachable state no two
\* Farmer rows have the same username.
C2_RegisterRace == []C2_UniqueUsernames /\ [][C2_LateInsertFails]_vars

\* C2 witness: both browsers passed the existence check for one username,
\* one insert was committed and the other has just failed.
C2_Witness ==
    /\ resp.route = "register"
    /\ resp.status = 500
    /\ Cardinality({i \in 1..Len(farmers) : farmers[i].username = resp.form.username}) = 1
    /\ \A c \in Clients : pending[c] = <<>>

\* What a step that answers /sell_rice in a buyer's session must do.
C3_Step ==
    (Answered("sell_rice") /\ \E u \in SessionUser(resp'.client) : u.role = "buyer") =>
        /\ resp'.status = 302
        /\ resp'.target = "/"
        /\ resp'.flash = "You must be a farmer to sell rice."
        /\ products' = products
        /\ uploads' = uploads

\* C3: every request to /sell_rice, GET or POST and whatever its form, made
\* in a session of a buyer-role account is redirected to "/" with the
\* role-mismatch flash; no product row is created and no file is written.
C3_BuyerCannotSell == [][C3_Step]_vars

\* C3 witness: a buyer posted a valid form with a file and was turned away.
C3_Witness ==
    /\ resp.route = "sell_rice"
    /\ validate_sell_rice(resp.method, resp.form)
    /\ resp.form.image # Null
    /\ resp.flash = "You must be a farmer to sell rice."
    /\ uploads = {}

\* The request is a /sell_rice submission that passes form validation, made
\* in a session of a farmer-role account.
FarmerSubmits ==
    /\ Answered("sell_rice")
    /\ validate_sell_rice(resp'.method, resp'.form)
    /\ \E u \in SessionUser(resp'.client) : u.role = "farmer"

\* The submission carries a file (a file part with a non-empty name).
CarriesFile(f) == f.image # Null /\ f.image[1] # <<>>

\* Exactly one row was added, with the submitted name and description, the
\* submitted price and quantity as numbers, the submitting account as owner
\* and the sanitized file name (or no image); the browser is sent to "/".
RiceCreated ==
    LET f == resp'.form
        rice == products'[Len(products')]
    IN  /\ Len(products') = Len(products) + 1
        /\ SubSeq(products', 1, Len(products)) = products
        /\ rice.name = f.name
        /\ rice.description = f.description
        /\ rice.price = [mant |-> to_float(f.price).mant, scale |-> to_float(f.price).scale]
        /\ rice.quantity.type = "integer"
        /\ rice.quantity.mant = to_float(f.quantity).mant
        /\ session[resp'.client] = <<rice.farmer_id>>
        /\ rice.image = IF CarriesFile(f) THEN Some(secure_filename(f.image[1])) ELSE Null
        /\ (f = BasmatiForm =>
              /\ rice.name = BASMATI
              /\ rice.price = [mant |-> 1205, scale |-> 1]
              /\ rice.quantity.mant = 50
              /\ rice.image = Null)
        /\ resp'.status = 302
        /\ resp'.target = "/"

\* "/" lists every stored product, and no stored product ever goes away.
CatalogLists ==
    /\ Answered("index") => resp'.products = products
    /\ RowsKept

\* C4 as stated: every valid /sell_rice submission by a farmer-role account
\* creates the product row and redirects to "/", and "/" lists it from then
\* on.
C4_Original == [][(FarmerSubmits => RiceCreated) /\ CatalogLists]_vars

\* The store and the upload folder can take the submission.
Storable(f) ==
    /\ to_float(f.price).ok
    /\ to_float(f.quantity).ok
    /\ to_float(f.quantity).scale = 0
    /\ CarriesFile(f) => secure_filename(f.image[1]) # <<>>

\* C4 as amended: the same, for a submission whose price and quantity are
\* decimal numerals and whose file, if it carries one, has a name that
\* sanitizes to a non-empty name.
C4_SellRice == [][((FarmerSubmits /\ Storable(resp'.form)) => RiceCreated) /\ CatalogLists]_vars

\* C4 witness: the catalog lists a product created from a submission with a
\* file, after another product was created.
C4_Witness ==
    /\ resp.route = "index"
    /\ Len(resp.products) = 2
    /\ resp.products[1].image = Some(<<"r", "_", "1", ".", "p">>)
    /\ resp.products[1].price = [mant |-> 7, scale |-> 0]
    /\ resp.products[2].name = BASMATI

\* What a step that answers /buy_now/<id> in a session must do.
C5_Step ==
    Answered("buy_now") =>
        LET id == resp'.arg
            hits == {i \in 1..Len(products) : products[i].id = id}
        IN  /\ StoreUnchanged
            /\ session' = session
            /\ \A u \in SessionUser(resp'.client) :
                 IF u.role # "buyer"
                 THEN /\ resp'.status = 302
                      /\ resp'.target = "/"
                      /\ resp'.flash = "Only buyers can make purchases."
                 ELSE IF hits = {}
                 THEN resp'.status = 404
                 ELSE /\ resp'.status = 200
                      /\ resp'.target = "payment_page.html"
                      /\ Len(resp'.products) = 1
                      /\ \E i \in hits : resp'.products[1] = products[i]
                      /\ \E j \in 1..Len(farmers) :
                           /\ farmers[j].id = resp'.products[1].farmer_id
                           /\ resp'.farmer_qr_code = Some(farmers[j].qr_code)

\* C5: /buy_now/<id> tests the role before it looks the product up: in a
\* session of an account that is not a buyer it redirects to "/" with a
\* flash for every id and never answers 404; in a buyer's session it answers
\* 404 when no product has the id and otherwise renders the payment page
\* with that product and the qr_code of the Farmer row the product's
\* farmer_id names.  It never changes the store.
C5_BuyNow == [][C5_Step]_vars

\* C5 witness: a farmer asked for an id no product has and was redirected.
C5_Witness ==
    /\ resp.route = "buy_now"
    /\ resp.status = 302
    /\ resp.target = "/"
    /\ \A i \in 1..Len(products) : products[i].id # resp.arg
    /\ \E u \in SessionUser(resp.client) : u.role = "farmer"

\* What a step that answers /profile in a session must do.
C6_Step ==
    Answered("profile") =>
        \A u \in SessionUser(resp'.client) :
            IF u.role = "farmer"
            THEN /\ resp'.status = 200
                 /\ resp'.target = "profile.html"
                 /\ {resp'.products[i] : i \in 1..Len(resp'.products)}
                      = {products[i] : i \in {j \in 1..Len(products) : products[j].farmer_id = u.id}}
                 /\ \A i, j \in 1..Len(resp'.products) :
                      resp'.products[i] = resp'.products[j] => i = j
            ELSE /\ resp'.status = 302
                 /\ resp'.target = "/"
                 /\ resp'.flash = "You must be a farmer to view this page."
                 /\ resp'.products = <<>>

\* C6: /profile in a farmer's session renders exactly the RiceProduct rows
\* whose farmer_id is the session account's id; in a buyer's session it
\* redirects to "/" with a flash and shows no product.
C6_Profile == [][C6_Step]_vars

\* C6 witness: a farmer's profile shows its one product while the table
\* also holds a product of another farmer.
C6_Witness ==
    /\ resp.route = "profile"
    /\ resp.status = 200
    /\ Len(resp.products) = 1
    /\ Len(products) = 2
    /\ products[1].farmer_id # products[2].farmer_id

\* The accounts whose username is the submitted one and whose stored hash is
\* that of the submitted password (the digest of an account's salt and the
\* password it registered with).
Matching(f) ==
    {farmers[i] : i \in {j \in 1..Len(farmers) :
        /\ farmers[j].username = f.username
        /\ farmers[j].password.digest = <<farmers[j].password.salt, f.password>>}}

\* The browser's session is bound to a matching account, no other session
\* moves, and the browser is sent to "/".
LoggedIn(c, f) ==
    /\ \E a \in Matching(f) : session'[c] = <<a.id>>
    /\ \A d \in Clients \ {c} : session'[d] = session[d]
    /\ resp'.status = 302
    /\ resp'.target = "/"

\* The response is the same whatever the store holds, and no session moves.
GenericFailure(c, m, f) ==
    /\ resp' = Render(c, "login", m, f, 0, "login.html", "Invalid username or password",
                      <<>>, Null)
    /\ session' = session

\* A submission either logs in or gets the generic failure.
C7_OriginalStep ==
    (Answered("login") /\ resp'.method = "POST") =>
        IF Matching(resp'.form) # {}
        THEN LoggedIn(resp'.client, resp'.form)
        ELSE GenericFailure(resp'.client, resp'.method, resp'.form)

\* C7 as stated: a /login submission establishes a session bound to account
\* A iff A has the submitted username and the submitted password matches
\* A's hash, and then redirects to "/"; every other submission gets the one
\* generic "Invalid username or password" response and leaves the session
\* as it was.
C7_Original == [][C7_OriginalStep]_vars

\* The same, with the submissions form validation turns away set apart.
C7_Step ==
    (Answered("login") /\ resp'.method = "POST") =>
        LET c == resp'.client
            m == resp'.method
            f == resp'.form
            valid == f.csrf /\ Strip(f.username, {" "}) # <<>> /\ Strip(f.password, {" "}) # <<>>
        IN  IF valid /\ Matching(f) # {}
            THEN LoggedIn(c, f)
            ELSE IF valid
            THEN GenericFailure(c, m, f)
            ELSE /\ resp' = Render(c, "login", m, f, 0, "login.html", "", <<>>, Null)
                 /\ session' = session

\* C7 as amended: the same for a submission that passes form validation
\* (non-blank username and password, valid CSRF token); a submission that
\* fails it gets the login form again without that message, whatever the
\* store holds, and leaves the session as it was.
C7_Login == [][C7_Step]_vars

\* C7 witness: a wrong password for a registered username was answered with
\* the generic message while the browser stayed logged in as before.
C7_Witness ==
    /\ resp.route = "login"
    /\ resp.flash = "Invalid username or password"
    /\ UsernameTaken(resp.form.username)
    /\ session[resp.client] # <<>>

\* What a step that answers /product/<id> must do.
C8_Step ==
    Answered("product_details") =>
        LET hits == {i \in 1..Len(products) : products[i].id = resp'.arg}
        IN  /\ StoreUnchanged
            /\ session' = session
            /\ IF hits = {}
               THEN resp'.status = 404 /\ resp'.products = <<>>
               ELSE /\ resp'.status = 200
                    /\ resp'.target = "product_details.html"
                    /\ Len(resp'.products) = 1
                    /\ \E i \in hits : resp'.products[1] = products[i]

\* C8: /product/<id> answers 404 when no RiceProduct has the id and
\* otherwise renders exactly that product's stored row; it needs no session
\* and changes neither the store nor any session.
C8_ProductDetails == [][C8_Step]_vars

\* C8 witness: an anonymous browser was shown the second product.
C8_Witness ==
    /\ resp.route = "product_details"
    /\ resp.status = 200
    /\ resp.arg = 2
    /\ resp.products[1].id = 2
    /\ session[resp.client] = <<>>

\* Every product's owner is a stored farmer-role account.
C9_OwnerIsFarmer ==
    \A i \in 1..Len(products) :
        \E j \in 1..Len(farmers) :
            /\ farmers[j].id = products[i].farmer_id
            /\ farmers[j].role = "farmer"

\* C9: in every reachable state every RiceProduct row's farmer_id is the id
\* of an existing Farmer row whose role is "farmer"; no account's role
\* changes and no row is updated or deleted.
C9_Ownership == []C9_OwnerIsFarmer /\ [][RowsKept]_vars

\* C9 witness: products exist while a buyer-role account is logged in.
C9_Witness ==
    /\ Len(products) = 2
    /\ \E c \in Clients : \E u \in SessionUser(c) : u.role = "buyer"

\* The routes behind @login_required.
ProtectedRoutes == {"sell_rice", "profile", "buy_now"}

\* Anonymous requests to protected routes, and the only way to a session.
C10_Step ==
    /\ \A route \in ProtectedRoutes :
         (Answered(route) /\ session[resp'.client] = <<>>) =>
            /\ resp'.status = 302
            /\ resp'.target = "/login"
            /\ resp'.products = <<>>
            /\ resp'.farmer_qr_code = Null
            /\ StoreUnchanged
    /\ \A c \in Clients :
         session'[c] # session[c] =>
            /\ Answered("login")
            /\ resp'.client = c
            /\ resp'.flash = "Logged in successfully!"

\* C10: a request to /sell_rice, /profile or /buy_now/<id> from a browser
\* without a session is redirected to the login page (not to "/"), creates
\* no row, writes no file and shows no product or QR code; a browser has a
\* session only from its own successful login on.
C10_LoginRequired == [][C10_Step]_vars

\* C10 witness: an anonymous browser posted a valid product form while
\* another browser was logged in as a farmer, and was sent to the login page.
C10_Witness ==
    /\ resp.route = "sell_rice"
    /\ validate_sell_rice(resp.method, resp.form)
    /\ resp.target = "/login"
    /\ session[resp.client] = <<>>
    /\ \E c \in Clients : \E u \in SessionUser(c) : u.role = "farmer"

====
